---- MODULE Spec2Model ----
(***************************************************************************)
(* A model of commands/template.py: the edit_file command, which resolves  *)
(* a free-text file description to a path through a matching service,     *)
(* ranks the candidates, auto-opens or asks the user, records the file in  *)
(* the recent-files cache and launches the editor.                         *)
(*                                                                         *)
(* One behaviour is one invocation of the command (one process).  Every    *)
(* collaborator call is one step, so that the order of the side effects    *)
(* and the point at which a collaborator raises are visible.  Confidence   *)
(* scores are counted in hundredths (0.9 is 90).                           *)
(***************************************************************************)
EXTENDS Integers, Sequences, FiniteSets

VARIABLES
    pc,            \* position in edit_file
    description,   \* the file_description argument, a sequence of characters
    optWorkspace,  \* the --workspace option as the caller gave it
    workspace,     \* the local variable workspace (the option until line 144)
    project_root,  \* the local variable project_root
    cache,         \* the recent-files backing store, most recent first
    cache0,        \* the backing store when the command started
    recent_files,  \* the local variable recent_files
    response,      \* what json_prompt returned
    matches,       \* the local variable matches
    choice,        \* what the user typed at the prompt
    file_path,     \* the path chosen to be cached and opened
    how,           \* the branch that chose file_path
    log,           \* the collaborator calls made so far, in order
    fault,         \* the step whose collaborator raised
    result         \* what edit_file returned

vars == <<pc, description, optWorkspace, workspace, project_root, cache, cache0,
          recent_files, response, matches, choice, file_path, how, log, fault,
          result>>

(***************************************************************************)
(* Bounds of the model.                                                    *)
(***************************************************************************)
MaxResults == 2

(***************************************************************************)
(* Constants of the program.                                               *)
(***************************************************************************)
Threshold == 90
DefaultScore == 80
MaxShown == 5
RecentShown == 5
RecentLimit == 5

NoWorkspace == "None"
DefaultRoot == "/neo-ai"
WsRoot == "/ws/main"
NoPath == <<>>
NoChoice == <<"<none>">>

\* get_workspaces()["workspaces"]: the configured names and their paths.
Config == [main |-> WsRoot]
ConfiguredNames == DOMAIN Config

\* What get_current_workspace() may return.
CurrentWorkspaces == {NoWorkspace, "main", "ghost"}
\* What the caller may pass as --workspace.
Options == {NoWorkspace, "ghost"}

Descriptions ==
    { <<"a", "u", "t", "h">>,
      <<"R", "E", "c", "e", "n", "t">>,
      <<"u", "n", "r", "e", "c", "e", "n", "t">> }

(***************************************************************************)
(* str.lower() and the substring test of line 166.                         *)
(***************************************************************************)
LowerChar(c) ==
    CASE c = "R" -> "r"
      [] c = "E" -> "e"
      [] OTHER -> c

Lower(s) == [i \in 1..Len(s) |-> LowerChar(s[i])]

Contains(needle, s) ==
    \E k \in 0..(Len(s) - Len(needle)) :
        \A i \in 1..Len(needle) : s[k + i] = needle[i]

RecentWord == <<"r", "e", "c", "e", "n", "t">>

IsRecentRequest(d) == Contains(RecentWord, Lower(d))

(***************************************************************************)
(* int(choice): surrounding blanks are stripped, then an optional sign and *)
(* at least one decimal digit; anything else raises ValueError.            *)
(***************************************************************************)
DigitChars == <<"0", "1", "2", "3", "4", "5", "6", "7", "8", "9">>

IsDigit(c) == \E d \in 1..Len(DigitChars) : DigitChars[d] = c

DigitVal(c) == (CHOOSE d \in 1..Len(DigitChars) : DigitChars[d] = c) - 1

RECURSIVE StripLeft(_)
StripLeft(s) ==
    IF s # <<>> /\ Head(s) = " " THEN StripLeft(Tail(s)) ELSE s

RECURSIVE StripRight(_)
StripRight(s) ==
    IF s # <<>> /\ s[Len(s)] = " "
    THEN StripRight(SubSeq(s, 1, Len(s) - 1))
    ELSE s

Strip(s) == StripRight(StripLeft(s))

RECURSIVE DigitsValue(_)
DigitsValue(s) ==
    IF s = <<>> THEN 0
    ELSE 10 * DigitsValue(SubSeq(s, 1, Len(s) - 1)) + DigitVal(s[Len(s)])

ParseInt(s) ==
    LET t == Strip(s)
        signed == t # <<>> /\ Head(t) \in {"-", "+"}
        digits == IF signed THEN Tail(t) ELSE t
        ok == digits # <<>> /\ \A i \in 1..Len(digits) : IsDigit(digits[i])
    IN  IF ~ok THEN [ok |-> FALSE, val |-> 0]
        ELSE [ok |-> TRUE,
              val |-> IF signed /\ Head(t) = "-"
                      THEN 0 - DigitsValue(digits)
                      ELSE DigitsValue(digits)]

\* What the user may type at either prompt.
Choices ==
    { <<>>, <<"x">>, <<"0">>, <<"1">>, <<"2">>, <<"6">>, <<"7">>,
      <<"-", "1">>, <<" ", "2">> }

(***************************************************************************)
(* seq[i] of a Python list, i counted from 0: a negative i counts from the *)
(* end, and an i outside -len..len-1 raises IndexError.                    *)
(***************************************************************************)
InIndexRange(seq, i) == 0 - Len(seq) <= i /\ i < Len(seq)

PyIndex(seq, i) == IF i >= 0 THEN seq[i + 1] ELSE seq[Len(seq) + i + 1]

\* seq[:n]
Take(seq, n) == SubSeq(seq, 1, IF Len(seq) < n THEN Len(seq) ELSE n)

\* os.path.join(project_root, relative)
Join(root, rel) == <<root, rel>>

(***************************************************************************)
(* The matching service's response: a record of the "results" list keeps   *)
(* each optional field as a set, empty when the key is absent.             *)
(***************************************************************************)
RawFiles == {{}, {"a.py"}, {"b.py"}}
RawScores == {{}, {50}, {90}, {95}}
RawTypes == {{}}

RawRecords ==
    [file : RawFiles, confidence_score : RawScores, file_type : RawTypes]

RawLists == UNION {[1..n -> RawRecords] : n \in 0..MaxResults}

\* One response with more records than the menu shows.
LongResults ==
    [i \in 1..(MaxShown + 1) |->
        [file |-> IF i % 2 = 1 THEN {"a.py"} ELSE {"b.py"},
         confidence_score |-> {},
         file_type |-> {"test"}]]

NoResponse == [kind |-> "none", results |-> <<>>]

Responses ==
    {[kind |-> "malformed", results |-> <<>>],
     [kind |-> "noresults", results |-> <<>>]}
    \cup {[kind |-> "results", results |-> r] : r \in RawLists \cup {LongResults}}

\* dict.get(key, default)
Get(field, default) == IF field = {} THEN default ELSE CHOOSE v \in field : TRUE

\* response.get("results", [])
Results(resp) == IF resp.kind = "results" THEN resp.results ELSE <<>>

\* The record appended at lines 198-204.
Normalize(match) ==
    [file_path |-> Get(match.file, ""),
     confidence_score |-> Get(match.confidence_score, DefaultScore),
     file_type |-> Get(match.file_type, "unknown")]

\* The loop of lines 196-204.
ParseMatches(resp) ==
    [i \in 1..Len(Results(resp)) |-> Normalize(Results(resp)[i])]

(***************************************************************************)
(* list.sort(key=..., reverse=True): the list is reversed, sorted stably   *)
(* in ascending order of the key, and reversed again.                      *)
(***************************************************************************)
Reverse(s) == [i \in 1..Len(s) |-> s[Len(s) + 1 - i]]

SortKey(m) == m.confidence_score

\* Binary insertion into an ascending run: x goes to the right of every
\* element whose key is not greater than its own.
InsertAscending(x, sorted) ==
    LET k == Cardinality({i \in 1..Len(sorted) : SortKey(sorted[i]) <= SortKey(x)})
    IN  SubSeq(sorted, 1, k) \o <<x>> \o SubSeq(sorted, k + 1, Len(sorted))

RECURSIVE SortAscending(_)
SortAscending(s) ==
    IF Len(s) = 0 THEN <<>>
    ELSE InsertAscending(s[Len(s)], SortAscending(SubSeq(s, 1, Len(s) - 1)))

\* A faulty ranking: sorted ascending and reversed, so that candidates of
\* equal score come out in reverse order.
SortByConfidenceReversedTies(ms) == Reverse(SortAscending(ms))

SortByConfidence(ms) == Reverse(SortAscending(Reverse(ms)))

\* A faulty threshold test: a score of exactly the threshold is accepted.
AutoAcceptInclusive(score) == score >= Threshold

\* Line 213.
AutoAccept(score) == score > Threshold

(***************************************************************************)
(* The recent-files cache of core.file_operations.                         *)
(***************************************************************************)
CacheRecentFile(path, store) ==
    <<path>> \o SelectSeq(store, LAMBDA p : p # path)

GetRecentFiles(store) == Take(store, RecentLimit)

CachedPaths == {Join(DefaultRoot, "a.py"), Join(WsRoot, "b.py")}

InitialCaches ==
    {s \in UNION {[1..n -> CachedPaths] : n \in 0..Cardinality(CachedPaths)} :
        \A i, j \in 1..Len(s) : i # j => s[i] # s[j]}

(***************************************************************************)
(* The record of a collaborator call, and the ways edit_file ends.         *)
(***************************************************************************)
Call(op, arg, ok) == [op |-> op, arg |-> arg, ok |-> ok]

Messages ==
    {"NotFound", "OpenedRecent", "InvalidSelectionRecent", "NoRecentFiles",
     "NoMatch", "OpenedAuto", "OpenedUser", "InvalidSelection", "Error"}

\* What a collaborator may raise.
FaultKinds == {"ValueError", "RuntimeError"}

\* A faulty outer handler: it catches what the inner handlers catch, and
\* anything else leaves edit_file as an exception.
HandleFaultNarrow(kind) ==
    IF kind \in {"ValueError", "IndexError"} THEN "Error" ELSE "Raised"

\* Lines 240-242: except Exception.
HandleFault(kind) == "Error"

\* Lines 238-239: the handler around lines 230-237.
HandleInSelection(kind) ==
    IF kind \in {"ValueError", "IndexError"}
    THEN "InvalidSelection"
    ELSE HandleFault(kind)

Init ==
    /\ pc = "start"
    /\ description \in Descriptions
    /\ optWorkspace \in Options
    /\ workspace = optWorkspace
    /\ project_root = ""
    /\ cache \in InitialCaches
    /\ cache0 = cache
    /\ recent_files = <<>>
    /\ response = NoResponse
    /\ matches = <<>>
    /\ choice = NoChoice
    /\ file_path = NoPath
    /\ how = "none"
    /\ log = <<>>
    /\ fault = "none"
    /\ result = "none"

\* A collaborator raised at step, outside the inner handlers.
Raise(op, kind) ==
    /\ log' = Append(log, Call(op, NoPath, FALSE))
    /\ fault' = op
    /\ result' = HandleFault(kind)
    /\ pc' = "done"

\* Lines 139-162.
ResolveWorkspace ==
    /\ pc = "start"
    /\ \/ /\ \E kind \in FaultKinds : Raise("get_current_workspace", kind)
          /\ UNCHANGED <<workspace, project_root>>
       \/ /\ workspace' = NoWorkspace
          /\ project_root' = DefaultRoot
          /\ log' = Append(log, Call("get_current_workspace", NoPath, TRUE))
          /\ pc' = "routed"
          /\ UNCHANGED <<fault, result>>
       \/ \E cw \in CurrentWorkspaces \ {NoWorkspace} :
            /\ workspace' = cw
            /\ \/ /\ log' = log \o <<Call("get_current_workspace", NoPath, TRUE),
                                     Call("get_workspaces", NoPath, FALSE)>>
                  /\ fault' = "get_workspaces"
                  /\ \E kind \in FaultKinds : result' = HandleFault(kind)
                  /\ pc' = "done"
                  /\ UNCHANGED project_root
               \/ /\ cw \notin ConfiguredNames
                  /\ log' = log \o <<Call("get_current_workspace", NoPath, TRUE),
                                     Call("get_workspaces", NoPath, TRUE)>>
                  /\ result' = "NotFound"
                  /\ pc' = "done"
                  /\ UNCHANGED <<project_root, fault>>
               \/ /\ cw \in ConfiguredNames
                  /\ log' = log \o <<Call("get_current_workspace", NoPath, TRUE),
                                     Call("get_workspaces", NoPath, TRUE)>>
                  /\ project_root' = Config[cw]
                  /\ pc' = "routed"
                  /\ UNCHANGED <<fault, result>>
    /\ UNCHANGED <<description, optWorkspace, cache, cache0, recent_files,
                   response, matches, choice, file_path, how>>

\* Lines 166-169 and 181.
ReadRecentFiles ==
    /\ pc = "routed"
    /\ IsRecentRequest(description)
    /\ \/ /\ \E kind \in FaultKinds : Raise("_get_recent_files", kind)
          /\ UNCHANGED recent_files
       \/ /\ recent_files' = GetRecentFiles(cache)
          /\ log' = Append(log, Call("_get_recent_files", NoPath, TRUE))
          /\ IF recent_files' = <<>>
             THEN pc' = "done" /\ result' = "NoRecentFiles"
             ELSE pc' = "recent_prompt" /\ UNCHANGED result
          /\ UNCHANGED fault
    /\ UNCHANGED <<description, optWorkspace, workspace, project_root, cache,
                   cache0, response, matches, choice, file_path, how>>

\* Lines 170-180.
ChooseRecent ==
    /\ pc = "recent_prompt"
    /\ \/ /\ \E kind \in FaultKinds : Raise("prompt", kind)
          /\ UNCHANGED <<choice, file_path, how>>
       \/ \E c \in Choices :
            LET n == ParseInt(c) IN
            /\ choice' = c
            /\ pc' = "done"
            /\ UNCHANGED fault
            /\ IF n.ok /\ InIndexRange(recent_files, n.val - 1)
               THEN /\ file_path' = PyIndex(recent_files, n.val - 1)
                    /\ how' = "recent"
                    /\ log' = log \o <<Call("prompt", NoPath, TRUE),
                                       Call("os.system", file_path', TRUE)>>
                    /\ result' = "OpenedRecent"
               ELSE /\ log' = Append(log, Call("prompt", NoPath, TRUE))
                    /\ result' = "InvalidSelectionRecent"
                    /\ UNCHANGED <<file_path, how>>
    /\ UNCHANGED <<description, optWorkspace, workspace, project_root, cache,
                   cache0, recent_files, response, matches>>

\* Lines 184-189.
BuildRequest ==
    /\ pc = "routed"
    /\ ~IsRecentRequest(description)
    /\ \/ \E kind \in FaultKinds : Raise("get_codebase_structure", kind)
       \/ /\ log' = log \o <<Call("get_codebase_structure", NoPath, TRUE),
                             Call("get_framework_specific_prompt", NoPath, FALSE)>>
          /\ fault' = "get_framework_specific_prompt"
          /\ \E kind \in FaultKinds : result' = HandleFault(kind)
          /\ pc' = "done"
       \/ /\ log' = log \o <<Call("get_codebase_structure", NoPath, TRUE),
                             Call("get_framework_specific_prompt", NoPath, TRUE)>>
          /\ pc' = "request"
          /\ UNCHANGED <<fault, result>>
    /\ UNCHANGED <<description, optWorkspace, workspace, project_root, cache,
                   cache0, recent_files, response, matches, choice, file_path,
                   how>>

\* A faulty service step: the call is made a second time before giving up.
ServiceRaisesRetry ==
    /\ log' = log \o <<Call("json_prompt", NoPath, FALSE),
                       Call("json_prompt", NoPath, FALSE)>>
    /\ fault' = "json_prompt"
    /\ \E kind \in FaultKinds : result' = HandleFault(kind)
    /\ pc' = "done"
    /\ UNCHANGED response

\* Line 192 raising, caught at lines 240-242.
ServiceRaises ==
    /\ \E kind \in FaultKinds : Raise("json_prompt", kind)
    /\ UNCHANGED response

\* Lines 192-193.
CallService ==
    /\ pc = "request"
    /\ \/ ServiceRaises
       \/ /\ response' \in Responses
          /\ log' = Append(log, Call("json_prompt", NoPath, TRUE))
          /\ pc' = "responded"
          /\ UNCHANGED <<fault, result>>
    /\ UNCHANGED <<description, optWorkspace, workspace, project_root, cache,
                   cache0, recent_files, matches, choice, file_path, how>>

\* Lines 195-210.
RankMatches ==
    /\ pc = "responded"
    /\ \/ /\ response.kind = "malformed"
          /\ fault' = "parse"
          /\ \E kind \in FaultKinds : result' = HandleFault(kind)
          /\ pc' = "done"
          /\ UNCHANGED matches
       \/ /\ response.kind # "malformed"
          /\ matches' = SortByConfidence(ParseMatches(response))
          /\ IF matches' = <<>>
             THEN pc' = "done" /\ result' = "NoMatch"
             ELSE pc' = "ranked" /\ UNCHANGED result
          /\ UNCHANGED fault
    /\ UNCHANGED <<description, optWorkspace, workspace, project_root, cache,
                   cache0, recent_files, response, choice, file_path, how, log>>

\* Lines 212-226.
Decide ==
    /\ pc = "ranked"
    /\ IF AutoAccept(matches[1].confidence_score)
       THEN /\ file_path' = Join(project_root, matches[1].file_path)
            /\ how' = "auto"
            /\ pc' = "cache"
       ELSE /\ pc' = "prompt"
            /\ UNCHANGED <<file_path, how>>
    /\ UNCHANGED <<description, optWorkspace, workspace, project_root, cache,
                   cache0, recent_files, response, matches, choice, log, fault,
                   result>>

\* Lines 228-232 and 238-239.
Choose ==
    /\ pc = "prompt"
    /\ \/ /\ \E kind \in FaultKinds : Raise("prompt", kind)
          /\ UNCHANGED <<choice, file_path, how>>
       \/ \E c \in Choices :
            LET n == ParseInt(c) IN
            /\ choice' = c
            /\ log' = Append(log, Call("prompt", NoPath, TRUE))
            /\ UNCHANGED fault
            /\ IF n.ok /\ InIndexRange(matches, n.val - 1)
               THEN /\ file_path' =
                         Join(project_root, PyIndex(matches, n.val - 1).file_path)
                    /\ how' = "user"
                    /\ pc' = "cache"
                    /\ UNCHANGED result
               ELSE /\ pc' = "done"
                    /\ result' = "InvalidSelection"
                    /\ UNCHANGED <<file_path, how>>
    /\ UNCHANGED <<description, optWorkspace, workspace, project_root, cache,
                   cache0, recent_files, response, matches>>

\* A collaborator raised at line 216-217 or, inside the inner try, at 233-236.
RaiseAfterChoice(op) ==
    /\ log' = Append(log, Call(op, file_path, FALSE))
    /\ fault' = op
    /\ pc' = "done"
    /\ \E kind \in FaultKinds :
         result' = IF how = "user" THEN HandleInSelection(kind)
                   ELSE HandleFault(kind)

\* A faulty cache step: the auto-open branch goes to the editor without
\* recording the file.
WriteCacheOnlyWhenSelected ==
    /\ pc = "cache"
    /\ \/ /\ RaiseAfterChoice("_cache_recent_file")
          /\ UNCHANGED cache
       \/ /\ cache' = IF how = "user" THEN CacheRecentFile(file_path, cache)
                     ELSE cache
          /\ log' = IF how = "user"
                    THEN Append(log, Call("_cache_recent_file", file_path, TRUE))
                    ELSE log
          /\ pc' = "launch"
          /\ UNCHANGED <<fault, result>>
    /\ UNCHANGED <<description, optWorkspace, workspace, project_root, cache0,
                   recent_files, response, matches, choice, file_path, how>>

\* Lines 216 and 233.
WriteCache ==
    /\ pc = "cache"
    /\ \/ /\ RaiseAfterChoice("_cache_recent_file")
          /\ UNCHANGED cache
       \/ /\ cache' = CacheRecentFile(file_path, cache)
          /\ log' = Append(log, Call("_cache_recent_file", file_path, TRUE))
          /\ pc' = "launch"
          /\ UNCHANGED <<fault, result>>
    /\ UNCHANGED <<description, optWorkspace, workspace, project_root, cache0,
                   recent_files, response, matches, choice, file_path, how>>

\* Lines 217-218 and 235-237.
OpenInEditor ==
    /\ pc = "launch"
    /\ \/ RaiseAfterChoice("open_in_editor")
       \/ /\ log' = Append(log, Call("open_in_editor", file_path, TRUE))
          /\ result' = IF how = "auto" THEN "OpenedAuto" ELSE "OpenedUser"
          /\ pc' = "done"
          /\ UNCHANGED fault
    /\ UNCHANGED <<description, optWorkspace, workspace, project_root, cache,
                   cache0, recent_files, response, matches, choice, file_path,
                   how>>

Next ==
    \/ ResolveWorkspace
    \/ ReadRecentFiles
    \/ ChooseRecent
    \/ BuildRequest
    \/ CallService
    \/ RankMatches
    \/ Decide
    \/ Choose
    \/ WriteCache
    \/ OpenInEditor

Spec == Init /\ [][Next]_vars

(***************************************************************************)
(* Vocabulary of the properties.                                           *)
(***************************************************************************)
\* The calls of op that returned.
Done(op) == {i \in 1..Len(log) : log[i].op = op /\ log[i].ok}

\* The calls of op, returned or raised.
Called(op) == {i \in 1..Len(log) : log[i].op = op}

CacheWrites == Done("_cache_recent_file")

Launches == Called("open_in_editor") \cup Called("os.system")

TopScore == matches[1].confidence_score

\* The input parses to an integer that numbers one of the listed entries.
PicksListed(c, listed) ==
    /\ ParseInt(c).ok
    /\ ParseInt(c).val \in 1..Len(listed)

\* The prompt of the disambiguation step, or of the shortcut, was answered.
AnsweredDisambiguation == choice # NoChoice /\ ~IsRecentRequest(description)

AnsweredRecent == choice # NoChoice /\ IsRecentRequest(description)

\* C1: in the disambiguation step, an input that is no integer or lies
\* outside 1..min(5, number of candidates) cancels the selection: nothing is
\* written to the cache, the editor is not launched and the run returns the
\* invalid-selection message.
C1_InvalidChoiceCancels ==
    (AnsweredDisambiguation /\ ~PicksListed(choice, Take(matches, MaxShown)))
        => /\ CacheWrites = {}
           /\ cache = cache0
           /\ Launches = {}
           /\ (pc = "done" /\ fault = "none" => result = "InvalidSelection")

\* C2: in the recent-files shortcut, an input that is no integer or lies
\* outside 1..min(5, number of cached files) returns the cancellation message
\* and the editor is not launched.
C2_InvalidRecentChoiceCancels ==
    (AnsweredRecent /\ ~PicksListed(choice, Take(recent_files, RecentShown)))
        => /\ Launches = {}
           /\ result = "InvalidSelectionRecent"

\* C3: once a non-empty ranked list is decided on, the top candidate is taken
\* without a prompt exactly when its score is strictly above the threshold;
\* at or below it the user is prompted, and nothing is cached or opened
\* before the prompt is answered.
C3_AutoOpenIffAboveThreshold ==
    (matches # <<>> /\ pc # "ranked")
        => IF TopScore > Threshold
           THEN /\ how = "auto"
                /\ Called("prompt") = {}
                /\ file_path = Join(project_root, matches[1].file_path)
                /\ (pc = "done" /\ fault = "none"
                       => /\ result = "OpenedAuto"
                          /\ \E i \in Done("open_in_editor") :
                                log[i].arg = file_path)
           ELSE /\ how # "auto"
                /\ result # "OpenedAuto"
                /\ (pc = "done" => Called("prompt") # {})
                /\ (Done("prompt") = {}
                       => /\ CacheWrites = {}
                          /\ Launches = {}
                          /\ cache = cache0)
                /\ \A i \in CacheWrites \cup Launches :
                      \E j \in Done("prompt") : j < i

\* A top score of exactly the threshold was put to the user, who then opened
\* a candidate.
C3_Witness ==
    /\ matches # <<>>
    /\ TopScore = Threshold
    /\ result = "OpenedUser"

\* C4: when json_prompt raises, the run has ended with the failure message,
\* the service was called once, the cache is as it was and neither a cache
\* write, a prompt nor an editor launch was made.
C4_ServiceErrorAborts ==
    fault = "json_prompt"
        => /\ pc = "done"
           /\ result = "Error"
           /\ Cardinality(Called("json_prompt")) = 1
           /\ cache = cache0
           /\ Called("_cache_recent_file") = {}
           /\ Called("prompt") = {}
           /\ Launches = {}

C4_Witness == fault = "json_prompt" /\ cache0 # <<>>

C6_CacheWriteOrdered ==
    /\ Cardinality(Called("_cache_recent_file")) <= 1
    /\ \A i \in CacheWrites :
          /\ log[i].arg = file_path
          /\ \/ how = "auto" /\ Called("prompt") = {}
             \/ /\ how = "user"
                /\ Done("prompt") # {}
                /\ PicksListed(choice, Take(matches, MaxShown))
          /\ IF i = Len(log)
             THEN pc = "launch"
             ELSE /\ log[i + 1].op = "open_in_editor"
                  /\ log[i + 1].arg = log[i].arg
    /\ (result \in {"NoMatch", "InvalidSelection", "NotFound"}
           \/ fault = "json_prompt")
          => CacheWrites = {} /\ cache = cache0

\* C7: a run given a --workspace name that is not configured ends with the
\* not-found message and calls neither the cache, the extractor, the prompt
\* builder, the service, the user nor the editor.
C7_UnknownNamedWorkspaceFailsFast ==
    optWorkspace \notin ConfiguredNames \cup {NoWorkspace}
        => /\ (pc = "done" /\ fault = "none" => result = "NotFound")
           /\ \A i \in 1..Len(log) :
                 log[i].op \in {"get_current_workspace", "get_workspaces"}

\* The elements of s whose score is v, in the order of s.
WithScore(s, v) == SelectSeq(s, LAMBDA m : m.confidence_score = v)

\* How many times r occurs in s.
Occurrences(s, r) == Cardinality({i \in 1..Len(s) : s[i] = r})

\* C8: the ranked list has the length of the response's list, is a
\* permutation of its records with the defaults filled in, is sorted by
\* non-increasing score, and lists the candidates of equal score in their
\* order in the response.
C8_RankIsStableSort ==
    pc \in {"ranked", "prompt", "cache", "launch"} \/ result = "NoMatch"
        => LET filled == ParseMatches(response) IN
           /\ Len(matches) = Len(Results(response))
           /\ \A i \in 1..Len(filled) :
                 Occurrences(matches, filled[i]) = Occurrences(filled, filled[i])
           /\ \A i \in 1..Len(matches) :
                 Occurrences(filled, matches[i]) = Occurrences(matches, matches[i])
           /\ \A i, j \in 1..Len(matches) :
                 i < j => matches[i].confidence_score >= matches[j].confidence_score
           /\ \A i \in 1..Len(matches) :
                 WithScore(matches, matches[i].confidence_score)
                    = WithScore(filled, matches[i].confidence_score)

\* Two different candidates, both scored 0.5, are listed as 1 and 2 in the
\* order of the response.
C8_Witness ==
    /\ pc = "prompt"
    /\ Len(matches) = 2
    /\ matches[1].confidence_score = 50
    /\ matches[2].confidence_score = 50
    /\ matches[1].file_path # matches[2].file_path
    /\ matches = ParseMatches(response)

\* C9: no path made from an empty file_path is written to the cache or
\* handed to the editor launcher.
C9_EmptyPathNeverOpened ==
    \A i \in Done("_cache_recent_file") \cup Called("open_in_editor") :
        log[i].arg[2] # ""

\* The positions of edit_file before it returns.
Running ==
    {"start", "routed", "recent_prompt", "request", "responded", "ranked",
     "prompt", "cache", "launch"}

\* C10: a run that has ended returned one of the status messages, whatever
\* collaborator raised and whatever the service answered; until then it is
\* at one of the steps of edit_file and has returned nothing.
C10_AlwaysReturnsMessage ==
    /\ pc \in Running \cup {"done"}
    /\ pc = "done" => result \in Messages
    /\ pc \in Running => result = "none"

\* The editor launcher raised after the cache was written, and the run still
\* returned a message.
C10_Witness ==
    /\ pc = "done"
    /\ fault = "open_in_editor"
    /\ how = "auto"
    /\ result = "Error"

====
